---- MODULE Spec2Model ----
(***************************************************************************)
(* Model of jaka_control/jkrc.py: class RC, a TCP client of the JAKA robot *)
(* controller.  One RC object is shared by several caller threads.  The    *)
(* model keeps the session (_socket, _timeout, the transaction lock), the  *)
(* streams the session has opened, and the position of every thread inside *)
(* the method it is executing.                                             *)
(***************************************************************************)
EXTENDS Integers, Sequences, FiniteSets, TLC

\* ------------------------------------------------------------------ bounds
MaxCalls   == 2      \* typed operations started over one behaviour
MaxStreams == 2      \* sockets login may create over one behaviour
MaxCode    == 2      \* replies carry the status codes -1 .. MaxCode
MaxElems   == 2      \* array fields of replies hold up to MaxElems values

\* --------------------------------------------------------- program constants
None              == 0       \* self._socket = None
EndMoveAccelMax   == 720     \* end_move: assert accel <= 720
MoveLAccelMax     == 8000    \* linear_move_extend: assert accel <= 8000

\* Two threads share the RC object.  Both call typed operations; the owner
\* also runs the session's lifecycle (login, logout, and __del__ at the end).
Threads   == {"owner", "caller"}
IsOwner(t) == t = "owner"
Unlocked  == "unlocked"      \* threading.Lock() is created unlocked
StreamIds == 1..MaxStreams

\* Values of the constructor's timeout argument, by what settimeout and recv
\* do with them: a positive number (the default, 60), a negative number
\* (settimeout raises ValueError).
TimeoutValues == {"positive", "negative"}

\* ---------------------------------------------------------- typed operations
ProcessOps == {"power_on", "power_off", "enable_robot", "disable_robot",
               "clear_error", "is_in_servomove", "servo_move_enable",
               "joint_move_with_acc", "end_move", "linear_move_extend",
               "get_version", "emergency_stop_status", "get_robot_state"}
FastOps    == {"servo_j", "get_joint_position", "get_tcp_position"}
TypedOps   == ProcessOps \cup FastOps
\* operations of _process that read a payload field of the parsed reply
PayloadOps == {"is_in_servomove", "get_version", "emergency_stop_status",
               "get_robot_state"}
\* operations of the fast scan that read an array field of the reply
ArrayOps   == {"get_joint_position", "get_tcp_position"}
\* operations that assert move_mode in [0, 1], and that assert is_block
ModeOps    == {"servo_j", "joint_move_with_acc", "linear_move_extend"}
BlockOps   == {"joint_move_with_acc", "linear_move_extend"}

ModeValues  == {-1, 0, 1, 2}
AccelValues(max) == {max, max + 1}
DefaultArgs == [move_mode |-> 0, is_block |-> TRUE, accel |-> 1]

\* The arguments a caller can pass to each operation (the parameters the
\* code looks at before it sends; the others only go into the request text).
ArgsOf(o) ==
  CASE o = "servo_j" ->
         {[DefaultArgs EXCEPT !.move_mode = m] : m \in ModeValues}
    [] o = "joint_move_with_acc" ->
         {[DefaultArgs EXCEPT !.move_mode = m, !.is_block = b] :
            m \in ModeValues, b \in BOOLEAN}
    [] o = "end_move" ->
         {[DefaultArgs EXCEPT !.accel = a] : a \in AccelValues(EndMoveAccelMax)}
    [] o = "linear_move_extend" ->
         {[DefaultArgs EXCEPT !.move_mode = m, !.is_block = b, !.accel = a] :
            m \in ModeValues, b \in BOOLEAN,
            a \in AccelValues(MoveLAccelMax)}
    [] OTHER -> {DefaultArgs}

\* Faulty variants of the assertions (a check dropped or shifted).
servo_j_pre_nocheck(a) == TRUE
end_move_pre_strict(a) == a.accel < EndMoveAccelMax

\* The assertions at the top of the operations that have any.
servo_j_pre(a) == a.move_mode \in {0, 1}
joint_move_with_acc_pre(a) == a.move_mode \in {0, 1} /\ a.is_block
end_move_pre(a) == a.accel <= EndMoveAccelMax
linear_move_extend_pre(a) ==
  a.move_mode \in {0, 1} /\ a.is_block /\ a.accel <= MoveLAccelMax

Precond(o, a) ==
  CASE o = "servo_j"             -> servo_j_pre(a)
    [] o = "joint_move_with_acc" -> joint_move_with_acc_pre(a)
    [] o = "end_move"            -> end_move_pre(a)
    [] o = "linear_move_extend"  -> linear_move_extend_pre(a)
    [] OTHER                     -> TRUE

\* ------------------------------------------------------------------ replies
\* What the controller can answer, by what the two decoders see in it:
\*   ok       {"errorCode": "0", <the fields the operation reads>}
\*   bare     {"errorCode": "0"}
\*   err      {"errorCode": "2", ...}
\*   nocode   a JSON object without errorCode
\*   garbage  text that is neither JSON nor carries the errorCode marker
ReplyBodies == {"ok", "bare", "err", "nocode", "garbage"}
HasMarker(b) == b \in {"ok", "bare", "err"}
CodeOf(b)    == IF b = "err" THEN 2 ELSE 0

\* ------------------------------------------------------------------- state
VARIABLES
  _socket,     \* None or the id of the stream the session refers to
  _timeout,    \* the constructor's timeout
  globalLock,  \* Unlocked or the thread holding __globalLock
  streams,     \* every socket object the session has created
  nextStream,  \* id of the next socket socket.socket() returns
  pc,          \* per thread: where it is in the call it is executing
  call,        \* per thread: the call it is executing
  last,        \* the call that ended in the step that led here, if one did
  nCalls,      \* typed operations started so far
  alive,       \* FALSE once __del__ has begun
  reply,       \* decoding alone: the reply a typed operation is given
  decoded      \* decoding alone: what the operation made of it

vars == <<_socket, _timeout, globalLock, streams, nextStream, pc, call,
          last, nCalls, alive, reply, decoded>>

\* The session model abstracts replies to ReplyBodies; the texts themselves
\* are decoded in the section "reply texts", on these two variables, which
\* the session leaves alone.
decoding == <<reply, decoded>>
NoReply   == [status |-> "none"]
NoDecoded == [op |-> "none"]

\* A socket object.  state: unborn (not created yet), new (created),
\* connected, broken (connected, but the peer is gone), shutdown, closed.
\* pending: the requests the controller has received on it and not answered.
\* inbox: the replies that have arrived and were not read, each the request
\* it answers.  failed: it was closed by the handler of a login that failed.
NoStream == [state |-> "unborn", pending |-> <<>>, inbox |-> <<>>,
             failed |-> FALSE]

\* The connection of stream s is lost: nothing arrives on it any more.
Broken == [NoStream EXCEPT !.state = "broken"]

\* The session refers to a socket on which connect succeeded and which it
\* has neither shut down nor closed (whether the peer is still there the
\* session cannot see).
Connected == _socket # None /\ streams[_socket].state \in {"connected", "broken"}

\* A call.  op: the method (of a typed operation the name is kept only when
\* its assertions reject the call: once they pass, the operation decides
\* nothing but the code that follows the transaction, cont).  While a
\* transaction runs: its request and the socket recv was entered on.  What
\* the call did: lock acquisitions, send and recv calls, replies read that
\* answer another request.  How it ended: returned or the exception, the
\* place, the status and the second element of the returned tuple.  For
\* login, logout and __del__: what _close did.
NoCall == [op |-> "none", cont |-> "none", req |-> 0, sock |-> None,
           tx |-> 0, writes |-> 0, reads |-> 0, stale |-> FALSE,
           outcome |-> "none", at |-> "none", ec |-> 0, ret |-> "none",
           handle |-> None, closes |-> 0, shutdownFailed |-> FALSE,
           closeFailed |-> FALSE]

\* RC.__init__
Init ==
  /\ _socket = None
  /\ _timeout \in TimeoutValues
  /\ globalLock = Unlocked
  /\ streams = [s \in StreamIds |-> NoStream]
  /\ nextStream = 1
  /\ pc = [t \in Threads |-> "idle"]
  /\ call = [t \in Threads |-> NoCall]
  /\ last = NoCall
  /\ nCalls = 0
  /\ alive = TRUE
  /\ reply = NoReply
  /\ decoded = NoDecoded

Ready(t) == alive /\ pc[t] = "idle"

\* A call ends by raising `exc` at `where`.
Raised(c, exc, where) == [c EXCEPT !.outcome = exc, !.at = where]

\* A call returns.
Returned(c, code, second) ==
  [c EXCEPT !.outcome = "returned", !.ec = code, !.ret = second]

\* What the caller sees of a call that has ended.
Ended(c) == [c EXCEPT !.req = 0, !.sock = None, !.cont = "none"]

\* Thread t goes on with its call, now c, at p.
Goto(t, p, c) ==
  /\ pc' = [pc EXCEPT ![t] = p]
  /\ call' = [call EXCEPT ![t] = c]
  /\ last' = NoCall
  /\ UNCHANGED decoding

\* The call of thread t ends as c says.
Return(t, c) ==
  /\ pc' = [pc EXCEPT ![t] = "idle"]
  /\ call' = [call EXCEPT ![t] = NoCall]
  /\ last' = Ended(c)
  /\ UNCHANGED decoding

\* ------------------------------------------------------------ reply decoding
\* The text recv returned is the concatenation of the replies in `data`.
\* Index of the first reply of the text whose body is one of `bodies`, or 0
\* (str.find).
FirstWith(data, bodies) ==
  LET I == {i \in 1..Len(data) : data[i].body \in bodies}
  IN IF I = {} THEN 0 ELSE CHOOSE i \in I : \A j \in I : i <= j

HasArray(b) == b = "ok"

\* _parse_error_code_fast: -1 without the marker, else the integer after
\* its first occurrence.
ParseErrorCodeFast(data) ==
  LET i == FirstWith(data, {b \in ReplyBodies : HasMarker(b)})
  IN IF i = 0 THEN -1 ELSE CodeOf(data[i].body)

\* _process after _sendRecvMsg: json.loads of the text, then
\* int(ret["errorCode"]).  json.loads raises on empty data, on text that is
\* not one JSON value and on text followed by more text.
ProcessOutcome(data) ==
  IF Len(data) # 1 \/ data[1].body = "garbage" THEN "JSONDecodeError"
  ELSE IF data[1].body = "nocode" THEN "KeyError"
  ELSE "none"

\* The tail of an operation that uses _process.
DecodeProcess(c, data) ==
  LET exc == ProcessOutcome(data)
      b   == data[1].body
  IN IF exc # "none" THEN Raised(c, exc, "decode")
     ELSE IF CodeOf(b) # 0 THEN Returned(c, CodeOf(b), "raw")
     ELSE IF c.cont # "field" THEN Returned(c, 0, "none")
     ELSE IF b = "ok" THEN Returned(c, 0, "payload")
     ELSE Raised(c, "KeyError", "decode")

\* The tail of an operation that uses the fast scan.  Empty data is bytes,
\* and bytes.find of a str raises TypeError.
DecodeFast(c, data) ==
  LET ec == ParseErrorCodeFast(data)
  IN IF data = <<>> THEN Raised(c, "TypeError", "decode")
     ELSE IF ec # 0 THEN Returned(c, ec, "raw")
     ELSE IF c.cont # "fast_array" THEN Returned(c, 0, "none")
     ELSE IF FirstWith(data, {b \in ReplyBodies : HasArray(b)}) # 0
       THEN Returned(c, 0, "payload")
     ELSE Returned(c, 0, "raw")

\* A typed operation from the return of _sendRecvMsg to its own return.
Decode(c, data) ==
  IF c.cont \in {"fast_status", "fast_array"} THEN DecodeFast(c, data)
  ELSE DecodeProcess(c, data)

\* -------------------------------------------------------- typed operations
\* The code of operation o that follows its transaction:
\*   status       _process, then (ec, recv) or (ec,)
\*   field        _process, then (ec, recv) or (ec, <fields of the reply>)
\*   fast_status  the fast scan, then (ec,) or (ec, recv)
\*   fast_array   the fast scan, then (ec, <array field>) or (ec, recv)
Cont(o) ==
  IF o \in PayloadOps THEN "field"
  ELSE IF o \in ArrayOps THEN "fast_array"
  ELSE IF o \in FastOps THEN "fast_status"
  ELSE "status"

\* The first assertion of operation o that arguments a fail, or "none".
FailedAssert(o, a) ==
  IF Precond(o, a) THEN "none"
  ELSE IF o \in ModeOps /\ a.move_mode \notin {0, 1} THEN "move_mode"
  ELSE IF o \in BlockOps /\ ~a.is_block THEN "is_block"
  ELSE "accel"

\* A typed operation up to its call of _sendRecvMsg: the assertions on the
\* parameters, then the request text.  A failed assertion ends the call;
\* the arguments are used for nothing else than the request text.
Call(t, o, a) ==
  /\ Ready(t)
  /\ nCalls < MaxCalls
  /\ nCalls' = nCalls + 1
  /\ IF Precond(o, a)
       THEN Goto(t, "acquire", [NoCall EXCEPT !.op = "typed",
                                              !.cont = Cont(o),
                                              !.req = nCalls + 1])
       ELSE Return(t, Raised([NoCall EXCEPT !.op = o],
                             "AssertionError", FailedAssert(o, a)))
  /\ UNCHANGED <<_socket, _timeout, globalLock, streams, nextStream, alive>>

\* Faulty variant: the lock is released only when the block returns
\* (acquire ... release without try/finally): an exception leaves it with
\* the thread.
ExitWithLeaky(t, c) ==
  /\ globalLock' = IF c.outcome = "returned" THEN Unlocked ELSE t
  /\ Return(t, c)

\* _sendRecvMsg: the with-block is left, by return or by exception, which
\* releases the lock; the call then runs to its end, c, without touching
\* the session.
ExitWith(t, c) ==
  /\ globalLock' = Unlocked
  /\ Return(t, c)

\* Faulty variant: the lock is taken without waiting for it to be free.
AcquireBarging(t) ==
  /\ pc[t] = "acquire"
  /\ LET c == [call[t] EXCEPT !.tx = @ + 1]
     IN IF _socket = None
          THEN ExitWith(t, Raised(c, "NotConnected", "send"))
          ELSE globalLock' = t /\ Goto(t, "send", c)
  /\ UNCHANGED <<_socket, _timeout, streams, nextStream, nCalls, alive>>

\* Faulty variant: _send_data does not test the handle.
AcquireNoAssert(t) ==
  /\ pc[t] = "acquire"
  /\ globalLock = Unlocked
  /\ globalLock' = t
  /\ Goto(t, "send", [call[t] EXCEPT !.tx = @ + 1])
  /\ UNCHANGED <<_socket, _timeout, streams, nextStream, nCalls, alive>>

\* _sendRecvMsg: `with self.__globalLock` entered (blocks while the lock is
\* held), and the first statement under it, the not-connected assertion of
\* _send_data.  Between the two the thread does nothing but hold the lock,
\* so they are one step: one that finds no handle takes the lock and leaves
\* the block at once.
Acquire(t) ==
  /\ pc[t] = "acquire"
  /\ globalLock = Unlocked
  /\ LET c == [call[t] EXCEPT !.tx = @ + 1]
     IN IF _socket = None
          THEN ExitWith(t, Raised(c, "NotConnected", "send"))
          ELSE globalLock' = t /\ Goto(t, "send", c)
  /\ UNCHANGED <<_socket, _timeout, streams, nextStream, nCalls, alive>>

\* Faulty variant: a write that fails is tried once more.
SendDataRetry(t) ==
  /\ pc[t] = "send"
  /\ IF _socket = None
       THEN /\ ExitWith(t, Raised(call[t], "AttributeError", "send"))
            /\ UNCHANGED streams
       ELSE \E ok \in BOOLEAN :
              IF ok /\ streams[_socket].state = "connected"
                THEN /\ Goto(t, "recv", [call[t] EXCEPT !.writes = @ + 1])
                     /\ streams' = [streams EXCEPT
                          ![_socket].pending = Append(@, call[t].req)]
                     /\ UNCHANGED globalLock
                ELSE IF call[t].writes = 0
                  THEN /\ Goto(t, "send", [call[t] EXCEPT !.writes = @ + 1])
                       /\ UNCHANGED <<streams, globalLock>>
                  ELSE /\ ExitWith(t, Raised([call[t] EXCEPT
                                                !.writes = @ + 1],
                                             "OSError", "send"))
                       /\ UNCHANGED streams
  /\ UNCHANGED <<_socket, _timeout, nextStream, nCalls, alive>>

\* _send_data after its assertion: self._socket is read again and send is
\* called once.  A handle cleared since the assertion has no send
\* (AttributeError).  send raises OSError on a socket that is not connected,
\* and may raise it on a connected one (the peer is gone); a request that
\* was written reaches the controller.
SendData(t) ==
  /\ pc[t] = "send"
  /\ IF _socket = None
       THEN /\ ExitWith(t, Raised(call[t], "AttributeError", "send"))
            /\ UNCHANGED streams
       ELSE \E ok \in BOOLEAN :
              IF ok /\ streams[_socket].state = "connected"
                THEN /\ Goto(t, "recv", [call[t] EXCEPT !.writes = @ + 1])
                     /\ streams' = [streams EXCEPT
                          ![_socket].pending = Append(@, call[t].req)]
                     /\ UNCHANGED globalLock
                ELSE /\ ExitWith(t, Raised([call[t] EXCEPT
                                              !.writes = @ + 1],
                                           "OSError", "send"))
                     /\ streams' = IF streams[_socket].state = "connected"
                                     THEN [streams EXCEPT ![_socket] = Broken]
                                     ELSE streams
  /\ UNCHANGED <<_socket, _timeout, nextStream, nCalls, alive>>

\* _wait_reply, up to the call of recv: the not-connected assertion, then
\* self._socket is read again and recv is entered on the socket it refers
\* to.  The handle was set when the write was made: when it is null now, it
\* was cleared before the assertion (which fails) or between the assertion
\* and the second read (None has no recv: AttributeError).
WaitReplyBegin(t) ==
  /\ pc[t] = "recv"
  /\ IF _socket = None
       THEN \E exc \in {"NotConnected", "AttributeError"} :
              ExitWith(t, Raised(call[t], exc, "recv"))
       ELSE /\ Goto(t, "recv_wait", [call[t] EXCEPT !.sock = _socket,
                                                    !.reads = @ + 1])
            /\ UNCHANGED globalLock
  /\ UNCHANGED <<_socket, _timeout, streams, nextStream, nCalls, alive>>

\* Some reply of the data read answers another request than req.
Stale(data, req) == \E i \in 1..Len(data) : data[i].req # req

\* The ways recv(1024) on stream s can end.
\* Data: whatever has arrived, up to 1024 bytes: one reply or several.  What
\* the controller wrote in a reply is seen by nobody before recv returns it,
\* so it is drawn here.
RecvData(t, s) ==
  /\ streams[s].state \in {"connected", "shutdown"}
  /\ streams[s].inbox # <<>>
  /\ \E k \in 1..Len(streams[s].inbox) :
       \E bodies \in [1..k -> ReplyBodies] :
         LET data == [i \in 1..k |-> [req |-> streams[s].inbox[i],
                                      body |-> bodies[i]]]
         IN /\ ExitWith(t, Decode([call[t] EXCEPT
                                     !.stale = Stale(data, call[t].req)],
                                  data))
            /\ streams' = [streams EXCEPT
                 ![s].inbox = SubSeq(@, k + 1, Len(@))]

\* Faulty variant: the timeout never ends the wait.
RecvTimeoutNever(t, s) ==
  /\ _timeout = "elapsed"
  /\ ExitWith(t, Raised(call[t], "TimeoutError", "recv"))
  /\ UNCHANGED streams

\* Faulty variant: on a timeout the socket is closed.
RecvTimeoutCloses(t, s) ==
  /\ _timeout = "positive"
  /\ streams[s].state \in {"connected", "closed"}
  /\ streams[s].inbox = <<>>
  /\ ExitWith(t, Raised(call[t], "TimeoutError", "recv"))
  /\ streams' = [streams EXCEPT ![s] = [NoStream EXCEPT !.state = "closed"]]

\* Nothing arrived within the timeout settimeout installed.
RecvTimeout(t, s) ==
  /\ _timeout = "positive"
  /\ streams[s].state \in {"connected", "closed"}
  /\ streams[s].inbox = <<>>
  /\ ExitWith(t, Raised(call[t], "TimeoutError", "recv"))
  /\ UNCHANGED streams

\* The peer closed, or the stream was shut down: recv returns b"".
RecvEof(t, s) ==
  /\ streams[s].state \in {"connected", "broken", "shutdown"}
  /\ streams[s].inbox = <<>>
  /\ ExitWith(t, Decode(call[t], <<>>))
  /\ streams' = IF streams[s].state = "connected"
                  THEN [streams EXCEPT ![s] = Broken] ELSE streams

\* recv raises OSError: connection reset, or a socket that is not connected
\* or already closed.
RecvError(t, s) ==
  /\ streams[s].state \in {"new", "connected", "broken", "closed"}
  /\ streams[s].inbox = <<>>
  /\ ExitWith(t, Raised(call[t], "OSError", "recv"))
  /\ streams' = IF streams[s].state = "connected"
                  THEN [streams EXCEPT ![s] = Broken] ELSE streams

\* _wait_reply from the return of recv: the data (decoded unless empty) is
\* returned, or the exception of recv propagates.
WaitReplyEnd(t) ==
  /\ pc[t] = "recv_wait"
  /\ LET s == call[t].sock
     IN \/ RecvData(t, s)
        \/ RecvTimeout(t, s)
        \/ RecvEof(t, s)
        \/ RecvError(t, s)
  /\ UNCHANGED <<_socket, _timeout, nextStream, nCalls, alive>>

\* ------------------------------------------------------------- the controller
\* The controller answers the oldest request it has received on a stream.
ControllerReply(s) ==
  /\ streams[s].state = "connected"
  /\ streams[s].pending # <<>>
  /\ streams' = [streams EXCEPT
       ![s].pending = Tail(@),
       ![s].inbox = Append(@, Head(streams[s].pending))]
  /\ last' = NoCall
  /\ UNCHANGED <<_socket, _timeout, globalLock, nextStream, pc, call, nCalls,
                 alive, decoding>>

\* The controller leaves the oldest request unanswered.
ControllerIgnore(s) ==
  /\ streams[s].state = "connected"
  /\ streams[s].pending # <<>>
  /\ streams' = [streams EXCEPT ![s].pending = Tail(@)]
  /\ last' = NoCall
  /\ UNCHANGED <<_socket, _timeout, globalLock, nextStream, pc, call, nCalls,
                 alive, decoding>>

\* ------------------------------------------------------------------ _close
\* What the caller of _close does when _close returns: login re-raises the
\* exception it caught, logout returns (0,), __del__ returns.
AfterClose(c) == IF c.op = "login" THEN c ELSE Returned(c, 0, "none")

\* _close is entered by thread t in call c: the test of the handle; nothing
\* else happens without a handle.
Close(t, c) ==
  IF _socket # None
    THEN Goto(t, "close_shutdown", [c EXCEPT !.handle = _socket])
    ELSE Return(t, AfterClose(c))

\* Faulty variant: an exception of shutdown is not caught, so close and the
\* clearing of the handle are skipped and the exception reaches the caller.
CloseShutdownUncaught(t) ==
  /\ pc[t] = "close_shutdown"
  /\ \E ok \in BOOLEAN :
       IF ok /\ streams[_socket].state \in {"connected", "broken"}
         THEN /\ streams' = [streams EXCEPT ![_socket].state = "shutdown",
                                            ![_socket].pending = <<>>]
              /\ Goto(t, "close_close", call[t])
         ELSE /\ Return(t, Raised([call[t] EXCEPT !.shutdownFailed = TRUE],
                                  "OSError", "shutdown"))
              /\ UNCHANGED streams
  /\ UNCHANGED <<_socket, _timeout, globalLock, nextStream, nCalls, alive>>

\* _close, shutdown(SHUT_RDWR) in its try: it raises on a socket that is not
\* connected and may raise on a connected one; the exception is logged.
CloseShutdown(t) ==
  /\ pc[t] = "close_shutdown"
  /\ \E ok \in BOOLEAN :
       IF ok /\ streams[_socket].state \in {"connected", "broken"}
         THEN /\ streams' = [streams EXCEPT ![_socket].state = "shutdown",
                                            ![_socket].pending = <<>>]
              /\ Goto(t, "close_close", call[t])
         ELSE /\ Goto(t, "close_close",
                      [call[t] EXCEPT !.shutdownFailed = TRUE])
              /\ UNCHANGED streams
  /\ UNCHANGED <<_socket, _timeout, globalLock, nextStream, nCalls, alive>>

\* _close, close() in its try: the descriptor is released whether or not
\* close raises; the exception is logged.  What was in flight on the socket
\* is lost with it.
CloseClose(t) ==
  /\ pc[t] = "close_close"
  /\ streams' = [streams EXCEPT
       ![_socket] = [NoStream EXCEPT !.state = "closed",
                                     !.failed = (call[t].op = "login")]]
  /\ \E ok \in BOOLEAN :
       Goto(t, "close_clear", [call[t] EXCEPT !.closes = @ + 1,
                                              !.closeFailed = ~ok])
  /\ UNCHANGED <<_socket, _timeout, globalLock, nextStream, nCalls, alive>>

\* _close, self._socket = None, and the return to the caller.
CloseClear(t) ==
  /\ pc[t] = "close_clear"
  /\ _socket' = None
  /\ Return(t, AfterClose(call[t]))
  /\ UNCHANGED <<_timeout, globalLock, streams, nextStream, nCalls, alive>>

\* ------------------------------------------------------------------- login
\* Faulty variant: the handler re-raises without tearing the socket down.
LoginHandlerNoClose(t, c) == Return(t, c)

\* login, the except clause: _close, then the exception is raised again.
LoginHandler(t, c) == Close(t, c)

\* Faulty variant: a socket closed earlier is taken up again.
LoginReuse(t) ==
  /\ Ready(t)
  /\ IsOwner(t)
  /\ nextStream <= MaxStreams
  /\ LET c == [NoCall EXCEPT !.op = "login"]
         old == {s \in StreamIds : streams[s].state = "closed"}
         new == IF old = {} THEN nextStream ELSE CHOOSE s \in old : TRUE
     IN /\ streams' = [streams EXCEPT ![new].state = "new"]
        /\ _socket' = new
        /\ nextStream' = nextStream + 1
        /\ Goto(t, "login_connect", c)
  /\ UNCHANGED <<_timeout, globalLock, nCalls, alive>>

\* login up to connect: socket.socket(...), whose result is assigned to the
\* handle, then settimeout(self._timeout) on it.  When the creation raises
\* the handle keeps its value; settimeout raises ValueError for a negative
\* timeout.  An exception runs the handler.  The assignment drops the
\* session's reference to the socket of an earlier login, which login does
\* not close: the runtime closes it when it collects the object, at once
\* under reference counting, later or never under another collector.
Login(t) ==
  /\ Ready(t)
  /\ IsOwner(t)
  /\ nextStream <= MaxStreams
  /\ LET c == [NoCall EXCEPT !.op = "login"]
     IN \E ok \in BOOLEAN :
          IF ~ok
            THEN /\ LoginHandler(t, Raised(c, "OSError", "socket"))
                 /\ UNCHANGED <<_socket, streams, nextStream>>
            ELSE /\ \E collected \in BOOLEAN :
                      streams' = [s \in StreamIds |->
                        IF s = nextStream
                          THEN [streams[s] EXCEPT !.state = "new"]
                        ELSE IF s = _socket /\ collected
                          THEN [NoStream EXCEPT !.state = "closed"]
                        ELSE streams[s]]
                 /\ _socket' = nextStream
                 /\ nextStream' = nextStream + 1
                 /\ IF _timeout = "negative"
                      THEN Goto(t, "login_except",
                                Raised(c, "ValueError", "settimeout"))
                      ELSE Goto(t, "login_connect", c)
  /\ UNCHANGED <<_timeout, globalLock, nCalls, alive>>

\* login, the handler entered after settimeout raised.
LoginExcept(t) ==
  /\ pc[t] = "login_except"
  /\ LoginHandler(t, call[t])
  /\ UNCHANGED <<_socket, _timeout, globalLock, streams, nextStream, nCalls,
                 alive>>

\* login, connect((ip, port)): return (0,) when it succeeds, the handler
\* when it raises.
LoginConnect(t) ==
  /\ pc[t] = "login_connect"
  /\ \E ok \in BOOLEAN :
       IF ok
         THEN /\ streams' = [streams EXCEPT ![_socket].state = "connected"]
              /\ Return(t, Returned(call[t], 0, "none"))
         ELSE /\ LoginHandler(t, Raised(call[t], "OSError", "connect"))
              /\ UNCHANGED streams
  /\ UNCHANGED <<_socket, _timeout, globalLock, nextStream, nCalls, alive>>

\* ------------------------------------------------------- logout and __del__
\* logout -> _logout_socket -> _close
Logout(t) ==
  /\ Ready(t)
  /\ IsOwner(t)
  /\ Close(t, [NoCall EXCEPT !.op = "logout"])
  /\ UNCHANGED <<_socket, _timeout, globalLock, streams, nextStream, nCalls,
                 alive>>

\* __del__ -> _close: runs once no thread refers to the object any more.
Del(t) ==
  /\ IsOwner(t)
  /\ alive
  /\ \A u \in Threads : pc[u] = "idle"
  /\ alive' = FALSE
  /\ Close(t, [NoCall EXCEPT !.op = "__del__"])
  /\ UNCHANGED <<_socket, _timeout, globalLock, streams, nextStream, nCalls>>

\* ------------------------------------------------------------ specification
\* One step of thread t.
ThreadStep(t) ==
  \/ \E o \in TypedOps : \E a \in ArgsOf(o) : Call(t, o, a)
  \/ Acquire(t)
  \/ SendData(t)
  \/ WaitReplyBegin(t)
  \/ WaitReplyEnd(t)
  \/ Login(t)
  \/ LoginExcept(t)
  \/ LoginConnect(t)
  \/ Logout(t)
  \/ Del(t)
  \/ CloseShutdown(t)
  \/ CloseClose(t)
  \/ CloseClear(t)

\* One step of the controller.
ControllerStep == \E s \in StreamIds : ControllerReply(s) \/ ControllerIgnore(s)

\* The session shared by the threads.
Next == (\E t \in Threads : ThreadStep(t)) \/ ControllerStep

Spec == Init /\ [][Next]_vars

\* The session used by its owner alone.
SeqNext == ThreadStep("owner") \/ ControllerStep

SeqSpec == Init /\ [][SeqNext]_vars

\* ---------------------------------------------------------------- reply texts
\* Decoding alone, on the text of the reply.  A text is a sequence of tokens:
\* each punctuation character, the space and each digit is a token, and a run
\* of letters (a field name or a word) is one token.
Q      == "\""
Digits == {"0", "1", "2", "3", "4", "5", "6", "7", "8", "9"}
DigitValue(c) ==
  CASE c = "0" -> 0 [] c = "1" -> 1 [] c = "2" -> 2 [] c = "3" -> 3
    [] c = "4" -> 4 [] c = "5" -> 5 [] c = "6" -> 6 [] c = "7" -> 7
    [] c = "8" -> 8 [] c = "9" -> 9

\* _wait_reply returns the bytes object b"" unconverted when the peer has
\* closed the stream, and a str otherwise.
EmptyBytes == <<"b''">>
IsBytes(valueRecv) == valueRecv = EmptyBytes

\* str.find(query): the first index at which query occurs, 0 for Python's -1
Find(text, query) ==
  LET I == {i \in 1..(Len(text) + 1 - Len(query)) :
              SubSeq(text, i, i + Len(query) - 1) = query}
  IN IF I = {} THEN 0 ELSE CHOOSE i \in I : \A j \in I : i <= j

\* text[j:] and text[:k] with Python's zero-based indices; k = -1 drops the
\* last element
From(text, j) == SubSeq(text, j + 1, Len(text))
Upto(text, k) == IF k < 0 THEN SubSeq(text, 1, Len(text) + k)
                          ELSE SubSeq(text, 1, k)

\* the first index from i on whose token is not in S
RECURSIVE RunEnd(_, _, _)
RunEnd(text, i, S) ==
  IF i <= Len(text) /\ text[i] \in S THEN RunEnd(text, i + 1, S) ELSE i

\* str.strip()
RECURSIVE Strip(_)
Strip(text) ==
  IF text = <<>> THEN text
  ELSE IF Head(text) = " " THEN Strip(Tail(text))
  ELSE IF text[Len(text)] = " " THEN Strip(SubSeq(text, 1, Len(text) - 1))
  ELSE text

\* str.split(","): never empty, "" splits to [""]
RECURSIVE Split(_)
Split(text) ==
  LET i == Find(text, <<",">>)
  IN IF i = 0 THEN <<text>>
     ELSE <<SubSeq(text, 1, i - 1)>> \o Split(SubSeq(text, i + 1, Len(text)))

RECURSIVE DigitsValue(_)
DigitsValue(ds) ==
  IF ds = <<>> THEN 0
  ELSE 10 * DigitsValue(SubSeq(ds, 1, Len(ds) - 1)) + DigitValue(ds[Len(ds)])

\* int(str): optional blanks, an optional sign, digits
IntLiteral(text) ==
  LET s  == Strip(text)
      ds == IF s # <<>> /\ Head(s) \in {"-", "+"} THEN Tail(s) ELSE s
  IN IF ds # <<>> /\ RunEnd(ds, 1, Digits) = Len(ds) + 1
       THEN [ok |-> TRUE,
             n  |-> IF Head(s) = "-" THEN 0 - DigitsValue(ds)
                                     ELSE DigitsValue(ds)]
       ELSE [ok |-> FALSE, n |-> 0]

\* float(str), on the literals of this model: optional blanks, an optional
\* sign, digits, and an optional fraction
FloatLiteral(text) ==
  LET s  == Strip(text)
      ds == IF s # <<>> /\ Head(s) \in {"-", "+"} THEN Tail(s) ELSE s
      e  == RunEnd(ds, 1, Digits)
      f  == IF e <= Len(ds) /\ ds[e] = "." THEN RunEnd(ds, e + 1, Digits)
                                           ELSE e
  IN [ok |-> e > 1 /\ f = Len(ds) + 1, x |-> s]

\* ---- json.loads: values are tagged records
\* [type |-> "str" | "num" | "lit", s |-> tokens], [type |-> "arr", items],
\* [type |-> "obj", members |-> sequence of <<key, value>>]
JsonFail      == [ok |-> FALSE, val |-> <<>>, pos |-> 0]
JsonOk(v, p)  == [ok |-> TRUE, val |-> v, pos |-> p]
Literals      == {"true", "false", "null"}
SkipWs(text, i) == RunEnd(text, i, {" "})
At(text, i, c)  == i <= Len(text) /\ text[i] = c

ParseString(text, i) ==
  LET j == Find(From(text, i), <<Q>>)
  IN IF At(text, i, Q) /\ j # 0
       THEN JsonOk([type |-> "str", s |-> SubSeq(text, i + 1, i + j - 1)],
                   i + j + 1)
       ELSE JsonFail

ParseNumber(text, i) ==
  LET s == IF At(text, i, "-") THEN i + 1 ELSE i
      e == RunEnd(text, s, Digits)
      f == IF At(text, e, ".") THEN RunEnd(text, e + 1, Digits) ELSE e
  IN IF e > s /\ (text[s] = "0" => e = s + 1) /\ (f = e \/ f > e + 1)
       THEN JsonOk([type |-> "num", s |-> SubSeq(text, i, f - 1)], f)
       ELSE JsonFail

RECURSIVE ParseValue(_, _), ParseItems(_, _, _), ParseMembers(_, _, _)
ParseValue(text, i) ==
  IF i > Len(text) THEN JsonFail
  ELSE IF text[i] = Q THEN ParseString(text, i)
  ELSE IF text[i] \in Digits \cup {"-"} THEN ParseNumber(text, i)
  ELSE IF text[i] \in Literals
    THEN JsonOk([type |-> "lit", s |-> <<text[i]>>], i + 1)
  ELSE IF text[i] = "["
    THEN LET p == SkipWs(text, i + 1)
         IN IF At(text, p, "]")
              THEN JsonOk([type |-> "arr", items |-> <<>>], p + 1)
              ELSE ParseItems(text, p, <<>>)
  ELSE IF text[i] = "{"
    THEN LET p == SkipWs(text, i + 1)
         IN IF At(text, p, "}")
              THEN JsonOk([type |-> "obj", members |-> <<>>], p + 1)
              ELSE ParseMembers(text, p, <<>>)
  ELSE JsonFail

ParseItems(text, i, acc) ==
  LET v == ParseValue(text, i)
      q == SkipWs(text, v.pos)
  IN IF ~v.ok THEN JsonFail
     ELSE IF At(text, q, ",")
       THEN ParseItems(text, SkipWs(text, q + 1), Append(acc, v.val))
     ELSE IF At(text, q, "]")
       THEN JsonOk([type |-> "arr", items |-> Append(acc, v.val)], q + 1)
     ELSE JsonFail

ParseMembers(text, i, acc) ==
  LET k == ParseString(text, i)
      c == SkipWs(text, k.pos)
      v == ParseValue(text, SkipWs(text, c + 1))
      q == SkipWs(text, v.pos)
  IN IF ~k.ok \/ ~At(text, c, ":") \/ ~v.ok THEN JsonFail
     ELSE IF At(text, q, ",")
       THEN ParseMembers(text, SkipWs(text, q + 1),
                         Append(acc, <<k.val.s, v.val>>))
     ELSE IF At(text, q, "}")
       THEN JsonOk([type |-> "obj",
                    members |-> Append(acc, <<k.val.s, v.val>>)], q + 1)
     ELSE JsonFail

\* json.loads(valueRecv): one value, blanks around it, and nothing else
json_loads(valueRecv) ==
  LET v == ParseValue(valueRecv, SkipWs(valueRecv, 1))
  IN IF ~IsBytes(valueRecv) /\ v.ok
        /\ SkipWs(valueRecv, v.pos) = Len(valueRecv) + 1
       THEN v ELSE JsonFail

_parse_results(valueRecv) == json_loads(valueRecv)

\* ret[key] on a parsed reply: the last member with that key wins
HasKey(ret, key) ==
  ret.type = "obj" /\ \E i \in 1..Len(ret.members) : ret.members[i][1] = <<key>>
Get(ret, key) ==
  LET I == {i \in 1..Len(ret.members) : ret.members[i][1] = <<key>>}
  IN ret.members[CHOOSE i \in I : \A j \in I : j <= i][2]

\* int(value) on a parsed value
IntOf(v) ==
  CASE v.type = "str" -> IntLiteral(v.s)
    [] v.type = "num" -> IntLiteral(SubSeq(v.s, 1, RunEnd(v.s, 2, Digits) - 1))
    [] v.type = "lit" -> [ok |-> v.s # <<"null">>,
                          n  |-> IF v.s = <<"true">> THEN 1 ELSE 0]
    [] OTHER          -> [ok |-> FALSE, n |-> 0]

\* ---- what a decoder or an operation makes of a reply
Raise(exc)       == [outcome |-> "raised", exc |-> exc, ec |-> 0,
                     kind |-> "none", val |-> <<>>]
Tuple(ec, k, v)  == [outcome |-> "returned", exc |-> "none", ec |-> ec,
                     kind |-> k, val |-> v]
StatusOnly(ec)   == Tuple(ec, "status", <<>>)      \* (ec,)
WithRaw(ec, recv) == Tuple(ec, "raw", recv)        \* (ec, recv)

StatusQuery == <<Q, "errorCode", Q, ":", " ", Q>>  \* '"errorCode": "'
ArrayQuery(o) ==
  <<Q, IF o = "get_joint_position" THEN "joint_pos" ELSE "tcp_pos", Q,
    ":", " ", "[">>

\* Faulty variant: a reply without the query scans as 0.
_parse_error_code_fast_zero(valueRecv) ==
  IF IsBytes(valueRecv) THEN Raise("TypeError")
  ELSE LET i == Find(valueRecv, StatusQuery)
           rest == From(valueRecv, i - 1 + Len(StatusQuery))
           n == IntLiteral(Upto(rest, Find(rest, <<Q>>) - 1))
       IN IF i = 0 THEN StatusOnly(0)
          ELSE IF n.ok THEN StatusOnly(n.n) ELSE Raise("ValueError")

_parse_error_code_fast(valueRecv) ==
  IF IsBytes(valueRecv) THEN Raise("TypeError")
  ELSE LET i == Find(valueRecv, StatusQuery)
           rest == From(valueRecv, i - 1 + Len(StatusQuery))
           n == IntLiteral(Upto(rest, Find(rest, <<Q>>) - 1))
       IN IF i = 0 THEN StatusOnly(-1)
          ELSE IF n.ok THEN StatusOnly(n.n) ELSE Raise("ValueError")

\* _process after the transaction: (ec, ret, recv), or the exception of
\* json.loads, of ret["errorCode"] or of int()
_process(recv) ==
  LET r == _parse_results(recv)
  IN IF ~r.ok THEN Raise("JSONDecodeError")
     ELSE IF r.val.type # "obj" THEN Raise("TypeError")
     ELSE IF ~HasKey(r.val, "errorCode") THEN Raise("KeyError")
     ELSE LET v == Get(r.val, "errorCode")
              n == IntOf(v)
          IN IF n.ok THEN Tuple(n.n, "ret", r.val)
             ELSE Raise(IF v.type = "str" THEN "ValueError" ELSE "TypeError")

\* ret[field] of the payload operations
Payload(ec, ret, field) ==
  IF HasKey(ret, field) THEN Tuple(ec, "value", Get(ret, field))
                        ELSE Raise("KeyError")

get_robot_state(ec, ret) ==
  IF ~HasKey(ret, "enable") \/ ~HasKey(ret, "power") THEN Raise("KeyError")
  ELSE Tuple(ec, "state",
             <<Get(ret, "power") = [type |-> "str", s |-> <<"powered_on">>],
               Get(ret, "enable") = [type |-> "str", s |-> <<"robot_enabled">>]>>)

\* Faulty variant: the array is read whatever the status.
ArrayResultAnyStatus(o, recv) ==
  LET scan == _parse_error_code_fast(recv)
      i == Find(recv, ArrayQuery(o))
      rest == From(recv, i - 1 + Len(ArrayQuery(o)))
      k == Find(rest, <<"]">>) - 1
      xs == Split(Upto(rest, k))
      fs == [n \in 1..Len(xs) |-> FloatLiteral(xs[n])]
  IN IF scan.outcome = "raised" THEN scan
     ELSE IF i # 0 /\ k # -1
       THEN IF \A n \in 1..Len(fs) : fs[n].ok
              THEN Tuple(scan.ec, "list", [n \in 1..Len(fs) |-> fs[n].x])
              ELSE Raise("ValueError")
     ELSE WithRaw(scan.ec, recv)

\* get_joint_position and get_tcp_position after the transaction
ArrayResult(o, recv) ==
  LET scan == _parse_error_code_fast(recv)
      i == Find(recv, ArrayQuery(o))
      rest == From(recv, i - 1 + Len(ArrayQuery(o)))
      k == Find(rest, <<"]">>) - 1
      xs == Split(Upto(rest, k))
      fs == [n \in 1..Len(xs) |-> FloatLiteral(xs[n])]
  IN IF scan.outcome = "raised" THEN scan
     ELSE IF scan.ec = 0 /\ i # 0 /\ k # -1
       THEN IF \A n \in 1..Len(fs) : fs[n].ok
              THEN Tuple(0, "list", [n \in 1..Len(fs) |-> fs[n].x])
              ELSE Raise("ValueError")
     ELSE WithRaw(scan.ec, recv)

\* Faulty variant: a nonzero status is returned like a zero one.
ResultNoRaw(o, recv) ==
  IF o \in FastOps THEN StatusOnly(_parse_error_code_fast(recv).ec)
  ELSE LET p == _process(recv) IN
       IF p.outcome = "raised" THEN p ELSE StatusOnly(p.ec)

\* The typed operation o after its transaction has returned recv.
Result(o, recv) ==
  IF o \in ArrayOps THEN ArrayResult(o, recv)
  ELSE IF o = "servo_j"
    THEN LET scan == _parse_error_code_fast(recv)
         IN IF scan.outcome = "raised" THEN scan
            ELSE IF scan.ec = 0 THEN StatusOnly(0)
            ELSE WithRaw(scan.ec, recv)
  ELSE LET p == _process(recv)
       IN IF p.outcome = "raised" THEN p
          ELSE IF p.ec # 0 THEN WithRaw(p.ec, recv)
          ELSE CASE o = "is_in_servomove" -> Payload(0, p.val, "in_servomove")
                 [] o = "get_version" -> Payload(0, p.val, "version")
                 [] o = "emergency_stop_status" ->
                      Payload(0, p.val, "emergency_stop")
                 [] o = "get_robot_state" -> get_robot_state(0, p.val)
                 [] OTHER -> StatusOnly(0)

\* ---- the replies a controller can send, and their texts
\* A reply is described by its status field (how errorCode is written, if at
\* all), the separator after the field names, one further field, the order of
\* the two, and how much of the text arrives.
Codes      == -1..MaxCode
CanonSep   == <<":", " ">>                  \* "errorCode": "0"
Seps       == {CanonSep, <<":">>, <<" ", ":", " ">>}
StatusForms ==
     {[form |-> "absent", n |-> 0], [form |-> "word", n |-> 0]}
  \cup {[form |-> "str", n |-> n] : n \in Codes}
  \cup {[form |-> "num", n |-> n] : n \in 0..1}
PlainExtras == {"none", "version", "in_servomove", "emergency_stop",
                "robot_state"}
ArrayStyles == {"canon", "tight", "word", "open"}
Extras ==
     {[key |-> k, elems |-> 0, style |-> "canon"] : k \in PlainExtras}
  \cup {[key |-> "joint_pos", elems |-> n, style |-> "canon"] :
          n \in 0..MaxElems}
  \cup {[key |-> "joint_pos", elems |-> MaxElems, style |-> s] :
          s \in ArrayStyles}
  \cup {[key |-> "tcp_pos", elems |-> MaxElems, style |-> "canon"]}
Cuts == {"whole", "unclosed", "twice", "nothing", "eof"}

Replies ==
  {r \in [status : StatusForms, sep : Seps, extra : Extras,
          first : BOOLEAN, cut : Cuts] :
     /\ r.status.form = "absent" => r.sep = CanonSep
     /\ (r.status.form = "absent" \/ r.extra.key = "none") => r.first
     /\ r.cut \in {"nothing", "eof"} =>
          r.status.form = "absent" /\ r.extra.key = "none"}

RECURSIVE NatText(_)
NatText(n) ==
  LET d == CHOOSE c \in Digits : DigitValue(c) = n % 10
  IN IF n < 10 THEN <<d>> ELSE NatText(n \div 10) \o <<d>>
IntText(n) == IF n < 0 THEN <<"-">> \o NatText(0 - n) ELSE NatText(n)
Str(text)  == <<Q>> \o text \o <<Q>>
Field(key, sep, value) == Str(<<key>>) \o sep \o value

StatusField(r) ==
  Field("errorCode", r.sep,
        CASE r.status.form = "str"  -> Str(IntText(r.status.n))
          [] r.status.form = "num"  -> IntText(r.status.n)
          [] r.status.form = "word" -> Str(<<"x">>))

RECURSIVE Elems(_)
Elems(n) ==
  IF n = 0 THEN <<>>
  ELSE (IF n = 1 THEN <<>> ELSE Elems(n - 1) \o <<",">>)
         \o NatText(n) \o <<".", "5">>

ExtraField(r) ==
  LET e == r.extra
  IN CASE e.key = "version" -> Field("version", r.sep, Str(<<"1", ".", "7">>))
       [] e.key = "in_servomove" -> Field("in_servomove", r.sep, <<"false">>)
       [] e.key = "emergency_stop" -> Field("emergency_stop", r.sep, <<"0">>)
       [] e.key = "robot_state" ->
            Field("enable", r.sep, Str(<<"robot_enabled">>)) \o <<",", " ">>
              \o Field("power", r.sep, Str(<<"powered_off">>))
       [] e.style = "canon" ->
            Field(e.key, CanonSep, <<"[">> \o Elems(e.elems) \o <<"]">>)
       [] e.style = "tight" ->
            Field(e.key, <<":">>, <<"[">> \o Elems(e.elems) \o <<"]">>)
       [] e.style = "word" ->
            Field(e.key, CanonSep,
                  <<"[">> \o Elems(e.elems) \o <<",">> \o Str(<<"x">>)
                    \o <<"]">>)
       [] e.style = "open" ->
            Field(e.key, CanonSep, <<"[">> \o Elems(e.elems))

Object(r) ==
  LET s == IF r.status.form = "absent" THEN <<>> ELSE StatusField(r)
      e == IF r.extra.key = "none" THEN <<>> ELSE ExtraField(r)
      both == s # <<>> /\ e # <<>>
      comma == IF both THEN <<",", " ">> ELSE <<>>
  IN <<"{">> \o (IF r.first THEN s \o comma \o e ELSE e \o comma \o s)
       \o <<"}">>

\* the text _wait_reply hands to the decoders
Text(r) ==
  CASE r.cut = "whole"    -> Object(r)
    [] r.cut = "unclosed" -> SubSeq(Object(r), 1, Len(Object(r)) - 1)
    [] r.cut = "twice"    -> Object(r) \o Object(r)
    [] r.cut = "nothing"  -> <<"x">>
    [] r.cut = "eof"      -> EmptyBytes

\* ---- decoding alone
DecInit ==
  /\ _socket = None
  /\ _timeout = "positive"
  /\ globalLock = Unlocked
  /\ streams = [s \in StreamIds |-> NoStream]
  /\ nextStream = 1
  /\ pc = [t \in Threads |-> "idle"]
  /\ call = [t \in Threads |-> NoCall]
  /\ last = NoCall
  /\ nCalls = 0
  /\ alive = TRUE
  /\ reply \in Replies
  /\ decoded = NoDecoded

session == <<_socket, _timeout, globalLock, streams, nextStream, pc, call,
             last, nCalls, alive>>

\* a typed operation decodes the reply of its transaction
Operate(o) ==
  /\ decoded = NoDecoded
  /\ decoded' = [op |-> o, result |-> Result(o, Text(reply))]
  /\ UNCHANGED <<reply, session>>

\* both decoders read the status of the same reply
DecodeStatus ==
  /\ decoded = NoDecoded
  /\ decoded' = [op |-> "status",
                 fast |-> _parse_error_code_fast(Text(reply)),
                 structured |-> _process(Text(reply))]
  /\ UNCHANGED <<reply, session>>

DecNext == (\E o \in TypedOps : Operate(o)) \/ DecodeStatus
DecSpec == DecInit /\ [][DecNext]_vars

\* ------------------------------------------------------------------ progress
\* Transactions on a connected session: the state login leaves, for the
\* timeouts under which login connects: a positive number, or None, with
\* which settimeout makes recv wait without limit.
ConnectTimeouts == {"positive", "none"}

LiveInit ==
  /\ _socket = 1
  /\ _timeout \in ConnectTimeouts
  /\ globalLock = Unlocked
  /\ streams = [s \in StreamIds |->
                  IF s = 1 THEN [NoStream EXCEPT !.state = "connected"]
                           ELSE NoStream]
  /\ nextStream = 2
  /\ pc = [t \in Threads |-> "idle"]
  /\ call = [t \in Threads |-> NoCall]
  /\ last = Ended(Returned([NoCall EXCEPT !.op = "login"], 0, "none"))
  /\ nCalls = 0
  /\ alive = TRUE
  /\ reply = NoReply
  /\ decoded = NoDecoded

LiveStep(t) ==
  \/ \E o \in TypedOps : \E a \in ArgsOf(o) : Call(t, o, a)
  \/ Acquire(t)
  \/ SendData(t)
  \/ WaitReplyBegin(t)
  \/ WaitReplyEnd(t)

LiveNext == (\E t \in Threads : LiveStep(t)) \/ ControllerStep

\* recv returns of itself once data is there, the timeout has elapsed, or
\* the stream is no longer connected; that the peer answers, closes or
\* resets a connected stream is up to the peer.
RecvReturns(t) ==
  /\ pc[t] = "recv_wait"
  /\ LET s == call[t].sock
     IN \/ RecvData(t, s)
        \/ RecvTimeout(t, s)
        \/ streams[s].state # "connected" /\ (RecvEof(t, s) \/ RecvError(t, s))
  /\ UNCHANGED <<_socket, _timeout, nextStream, nCalls, alive>>

\* A thread inside a transaction runs on; the lock is fair to its waiters.
\* Nothing obliges a thread to call, nor the controller to answer.
LiveSpec ==
  /\ LiveInit
  /\ [][LiveNext]_vars
  /\ \A t \in Threads :
       /\ SF_vars(Acquire(t))
       /\ WF_vars(SendData(t))
       /\ WF_vars(WaitReplyBegin(t))
       /\ WF_vars(RecvReturns(t))

\* ------------------------------------------------------ transaction gate
\* Thread t is inside the with-block of _sendRecvMsg.
InTransaction(t) == pc[t] \in {"send", "recv", "recv_wait"}

\* Thread t has written its request and not yet got the result of its read.
BetweenWriteAndRead(t) == pc[t] \in {"recv", "recv_wait"}

\* C1: transactions are mutually exclusive.  At most one thread is inside
\* the with-block of _sendRecvMsg, so at most one thread is at its write or
\* its read, and while one thread is between its write and its read no
\* other thread is at a write or a read, whatever the other threads do.
C1_MutualExclusion ==
  /\ \A t, u \in Threads : InTransaction(t) /\ InTransaction(u) => t = u
  /\ \A t, u \in Threads :
       BetweenWriteAndRead(t) /\ u # t => pc[u] \notin {"send", "recv_wait"}
  /\ \A t \in Threads : InTransaction(t) => globalLock = t

\* C1, its case: one thread waits for its reply, having written its request,
\* while another one has started an operation and waits at the lock.
C1_Witness ==
  \E t, u \in Threads :
    /\ t # u
    /\ pc[t] = "recv_wait" /\ call[t].writes = 1
    /\ pc[u] = "acquire"
    /\ globalLock = t

\* C2: the lock is released on every path out of a transaction.  The lock
\* is held by nobody but a thread inside the with-block; in the state a
\* transaction has just ended in (by a reply, a read timeout, an I/O error
\* of the write or the read, or a not-connected assertion) the lock is free,
\* and a thread that waits for it can take it.
C2_LockReleased ==
  /\ \A t \in Threads : globalLock = t => InTransaction(t)
  /\ globalLock = Unlocked \/ globalLock \in Threads
  /\ last.op = "typed" =>
       /\ last.tx = 1
       /\ last.outcome \in {"returned", "TimeoutError", "OSError",
                            "NotConnected", "AttributeError",
                            "JSONDecodeError", "KeyError", "TypeError"}
       /\ globalLock = Unlocked
       /\ \A u \in Threads : pc[u] = "acquire" => ENABLED Acquire(u)

\* C2, its case: a transaction has just ended by a read timeout while
\* another thread waits for the lock, which it can now take.
C2_Witness ==
  /\ last.op = "typed" /\ last.outcome = "TimeoutError" /\ last.at = "recv"
  /\ globalLock = Unlocked
  /\ \E u \in Threads : pc[u] = "acquire" /\ ENABLED Acquire(u)

\* C3: a typed operation whose assertions pass enters one transaction, in
\* which it writes once and then reads once on the stream, whatever the
\* reply and whatever the other threads call; nothing is retried, so every
\* completed call counts one write and one read.  The session is connected
\* while the call runs: the only calls that end with another count are those
\* that found the handle null (before the write: no write, no read; before
\* the read: one write, no read) and those whose write raised on a stream
\* that is not, or no longer, connected (one write, no read).
C3_OneWriteOneRead ==
  /\ \A t \in Threads :
       /\ call[t].writes <= 1 /\ call[t].reads <= call[t].writes
       /\ pc[t] \in {"acquire", "send"} => call[t].writes = 0
       /\ pc[t] = "recv" => call[t].writes = 1 /\ call[t].reads = 0
       /\ pc[t] = "recv_wait" => call[t].writes = 1 /\ call[t].reads = 1
  /\ last.op = "typed" =>
       /\ last.tx = 1
       /\ IF last.outcome \in {"NotConnected", "AttributeError"}
            THEN /\ _socket = None
                 /\ last.reads = 0
                 /\ last.writes = (IF last.at = "send" THEN 0 ELSE 1)
          ELSE IF last.outcome = "OSError" /\ last.at = "send"
            THEN /\ streams[_socket].state # "connected"
                 /\ last.writes = 1 /\ last.reads = 0
          ELSE last.writes = 1 /\ last.reads = 1

\* C3, its case: an operation has returned after one write and one read
\* while another thread was waiting for the lock.
C3_Witness ==
  /\ last.op = "typed" /\ last.outcome = "returned"
  /\ last.writes = 1 /\ last.reads = 1
  /\ \E u \in Threads : pc[u] = "acquire"

\* C4, as stated: the reply a caller gets is the reply to its own request,
\* also after an earlier transaction ended with a read timeout.
C4_ReplyMatchesRequest ==
  last.op = "typed" => ~last.stale

\* ------------------------------------------------------ session lifecycle
\* C5, as stated: in every reachable state the handle is non-null exactly
\* when the session holds an open, connected stream.
C5_HandleIffConnected ==
  (_socket # None) <=> Connected

\* C6: a login that fails (socket creation, settimeout or connect) raises
\* its error to the caller and leaves the handle null, the socket it created
\* closed, and no half-open socket behind; whatever failed before, a login
\* whose connect succeeds returns (0,) with the handle on the connected
\* socket.
C6_FailedLoginNoResidue ==
  /\ [](/\ (last.op = "login" /\ last.outcome # "returned") =>
             /\ last.outcome \in {"OSError", "ValueError"}
             /\ last.at \in {"socket", "settimeout", "connect"}
             /\ _socket = None
             /\ last.at # "socket" => last.handle # None
             /\ last.handle # None =>
                  last.closes = 1 /\ streams[last.handle].state = "closed"
        /\ (last.op = "login" /\ last.outcome = "returned") =>
             /\ last.ec = 0 /\ last.ret = "none"
             /\ _socket # None /\ streams[_socket].state = "connected"
        /\ \A s \in StreamIds :
             streams[s].state = "new" =>
               s = _socket /\ pc["owner"] \notin {"idle", "acquire", "send",
                                                   "recv", "recv_wait"})
  /\ [][\A t \in Threads :
          (pc[t] = "login_connect" /\ streams'[_socket].state = "connected")
            => /\ last'.op = "login" /\ last'.outcome = "returned"
               /\ last'.ec = 0
               /\ _socket' = _socket /\ pc'[t] = "idle"]_vars

\* C6, its case: a login has returned (0,) after an earlier login failed
\* and its socket was torn down.
C6_Witness ==
  /\ last.op = "login" /\ last.outcome = "returned" /\ last.ec = 0
  /\ \E s \in StreamIds : streams[s].failed /\ streams[s].state = "closed"
  /\ Connected

\* C7: logout and __del__ never raise and _close raises nothing into login:
\* whether shutdown and close fail or not, close is called once on the
\* socket the handle referred to, and the handle is null when the call
\* ends.
C7_DisconnectNeverRaises ==
  /\ last.op \in {"logout", "__del__"} =>
       /\ last.outcome = "returned" /\ last.ec = 0
       /\ _socket = None
       /\ last.handle # None =>
            last.closes = 1 /\ streams[last.handle].state = "closed"
       /\ last.handle = None =>
            last.closes = 0 /\ ~last.shutdownFailed /\ ~last.closeFailed
  /\ (last.op = "login" /\ last.outcome # "returned") =>
       /\ last.at \in {"socket", "settimeout", "connect"}
       /\ _socket = None
  /\ last.shutdownFailed => last.closes = 1
  /\ \A t \in Threads :
       /\ pc[t] = "close_clear" => call[t].closes = 1
       /\ pc[t] \in {"close_shutdown", "close_close"} => call[t].closes = 0
       /\ call[t].shutdownFailed => pc[t] \in {"close_close", "close_clear"}

\* C7, its case: logout has returned after both shutdown and close raised;
\* close was called and the handle is null.
C7_Witness ==
  /\ last.op = "logout" /\ last.outcome = "returned"
  /\ last.shutdownFailed /\ last.closeFailed /\ last.closes = 1
  /\ _socket = None

\* C8: a typed operation that comes to its transaction while the session
\* has no handle fails with the not-connected assertion; it has written and
\* read nothing, no stream has changed, the lock is free and the handle is
\* still null.
C8_NotConnectedFailFast ==
  /\ []((last.op = "typed" /\ last.outcome = "NotConnected"
                           /\ last.at = "send") =>
          /\ last.writes = 0 /\ last.reads = 0
          /\ globalLock = Unlocked
          /\ _socket = None)
  /\ [][\A t \in Threads :
          (pc[t] = "acquire" /\ _socket = None /\ pc'[t] # "acquire") =>
            /\ last'.op = "typed" /\ last'.outcome = "NotConnected"
            /\ last'.at = "send"
            /\ last'.writes = 0 /\ last'.reads = 0
            /\ streams' = streams
            /\ globalLock' = Unlocked
            /\ _socket' = None
            /\ pc'[t] = "idle"]_vars

\* C8, its case: after a logout that closed the session's socket, a typed
\* operation has failed with the not-connected assertion.
C8_Witness ==
  /\ last.op = "typed" /\ last.outcome = "NotConnected" /\ last.at = "send"
  /\ last.writes = 0 /\ last.reads = 0
  /\ _socket = None /\ globalLock = Unlocked
  /\ \E s \in StreamIds : streams[s].state = "closed" /\ ~streams[s].failed

\* ----------------------------------------------------------- preconditions
\* C9: a call of servo_j, joint_move_with_acc or linear_move_extend with
\* move_mode outside {0, 1} ends with an AssertionError of the move_mode
\* assertion before anything is written: it has taken no lock, written and
\* read nothing, and the session (handle, lock, streams) is as it was.
C9_MoveModeRejected ==
  /\ []((last.outcome = "AssertionError") =>
          last.tx = 0 /\ last.writes = 0 /\ last.reads = 0)
  /\ [][nCalls' # nCalls => \A t \in Threads :
          \A o \in {"servo_j", "joint_move_with_acc", "linear_move_extend"} :
            \A a \in ArgsOf(o) :
              (a.move_mode \notin {0, 1} /\ Call(t, o, a)) =>
                /\ last'.op = o /\ last'.outcome = "AssertionError"
                /\ last'.at = "move_mode"
                /\ last'.tx = 0 /\ last'.writes = 0 /\ last'.reads = 0
                /\ pc'[t] = "idle" /\ call'[t] = NoCall
                /\ UNCHANGED <<_socket, _timeout, globalLock, streams,
                               nextStream>>]_vars

\* C9, its case: servo_j has been rejected for its move_mode on a connected
\* session.
C9_Witness ==
  /\ last.op = "servo_j" /\ last.outcome = "AssertionError"
  /\ last.at = "move_mode"
  /\ last.tx = 0 /\ last.writes = 0 /\ last.reads = 0
  /\ Connected /\ globalLock = Unlocked

\* C10: linear_move_extend with accel above 8000 and end_move with accel
\* above 720 end with an AssertionError before anything is written or read;
\* with accel at or below the ceiling (and, for linear_move_extend, a valid
\* move_mode and is_block) the call goes on to its transaction, and every
\* call that got that far goes through exactly one.
C10_AccelCeiling ==
  /\ [](/\ last.op = "typed" => last.tx = 1
        /\ \A t \in Threads :
             /\ pc[t] = "acquire" => call[t].tx = 0
             /\ InTransaction(t) => call[t].tx = 1)
  /\ [][nCalls' # nCalls => \A t \in Threads :
          /\ \A a \in ArgsOf("end_move") :
               Call(t, "end_move", a) =>
                 IF a.accel > 720
                   THEN /\ last'.op = "end_move"
                        /\ last'.outcome = "AssertionError"
                        /\ last'.tx = 0 /\ last'.writes = 0 /\ last'.reads = 0
                        /\ pc'[t] = "idle"
                        /\ UNCHANGED <<_socket, globalLock, streams>>
                   ELSE /\ pc'[t] = "acquire"
                        /\ call'[t].op = "typed" /\ call'[t].tx = 0
          /\ \A a \in ArgsOf("linear_move_extend") :
               Call(t, "linear_move_extend", a) =>
                 IF a.accel > 8000
                   THEN /\ last'.op = "linear_move_extend"
                        /\ last'.outcome = "AssertionError"
                        /\ last'.tx = 0 /\ last'.writes = 0 /\ last'.reads = 0
                        /\ pc'[t] = "idle"
                        /\ UNCHANGED <<_socket, globalLock, streams>>
                   ELSE (a.move_mode \in {0, 1} /\ a.is_block) =>
                        /\ pc'[t] = "acquire"
                        /\ call'[t].op = "typed" /\ call'[t].tx = 0]_vars

\* C10, its case: linear_move_extend has been rejected for an accel just
\* above its ceiling, its other arguments being valid, on a connected
\* session.
C10_Witness ==
  /\ last.op = "linear_move_extend" /\ last.outcome = "AssertionError"
  /\ last.at = "accel"
  /\ last.writes = 0 /\ last.reads = 0
  /\ Connected

\* ------------------------------------------------- status and payload read
\* A reply in the shape the protocol gives it: one whole flat JSON object
\* whose status reads "errorCode": "<integer>".
WellFormed(r) ==
  /\ r.cut = "whole"
  /\ r.status.form = "str"
  /\ r.sep = CanonSep
  /\ r.extra.style \in {"canon", "tight"}

Operated == decoded.op \in TypedOps

\* C11 -- For every typed operation, a well-formed reply whose errorCode is
\* a nonzero integer n makes the operation return (n, raw reply) without
\* raising; and on errorCode 0 an operation without payload returns (0,),
\* never a tuple that carries the raw reply.
C11_StatusReturned ==
  (Operated /\ WellFormed(reply)) =>
     /\ reply.status.n # 0 =>
          decoded.result = WithRaw(reply.status.n, Text(reply))
     /\ (reply.status.n = 0 /\ decoded.op \notin PayloadOps \cup ArrayOps) =>
          decoded.result = StatusOnly(0)

\* C11 witness: power_on has decoded {"errorCode": "2"} and returned the
\* status 2 with the raw reply.
C11_Witness ==
  /\ decoded.op = "power_on"
  /\ WellFormed(reply) /\ reply.status.n = 2 /\ reply.extra.key = "none"
  /\ decoded.result.outcome = "returned"
  /\ decoded.result.ec = 2 /\ decoded.result.kind = "raw"

\* A whole, valid JSON object without an errorCode field.
NoStatusField(r) ==
  /\ r.cut = "whole"
  /\ r.status.form = "absent"
  /\ r.extra.style \in {"canon", "tight"}

\* C12 -- A reply with no errorCode field makes every typed operation, on
\* the structured path (_process) as on the fast scan, return (-1, raw
\* reply) rather than raise.
C12_MissingFieldReturned ==
  (Operated /\ NoStatusField(reply)) =>
     decoded.result = WithRaw(-1, Text(reply))

\* A whole, valid flat JSON object whose errorCode is an integer written as
\* a string, with any of the separators after the field names and the
\* status field first or last.
StatusBearing(r) ==
  /\ r.cut = "whole"
  /\ r.status.form = "str"
  /\ r.extra.style \in {"canon", "tight"}

\* C13 -- For every valid flat JSON object whose errorCode is an integer
\* written as a string (whatever the blanks around the colon and the order
\* of the fields), the fast scan and the structured decoder read the same
\* status: _parse_error_code_fast(reply) = int(_parse_results(reply)
\* ["errorCode"]).
C13_DecodersAgree ==
  (decoded.op = "status" /\ StatusBearing(reply)) =>
     /\ decoded.fast.outcome = "returned"
     /\ decoded.structured.outcome = "returned"
     /\ decoded.fast.ec = decoded.structured.ec

\* The reply carries no errorCode field at all (whole or cut short, an
\* object or not, or nothing but the end of the stream).
LacksStatus(r) == r.status.form = "absent"

\* C14 -- For every reply that lacks the status field, no typed operation
\* reports success: none returns a tuple whose first element is 0; on every
\* such text the fast scan yields -1 and the structured decoder fails.
C14_NoSilentZero ==
  LacksStatus(reply) =>
     /\ Operated =>
          ~(decoded.result.outcome = "returned" /\ decoded.result.ec = 0)
     /\ (decoded.op = "status" /\ reply.cut # "eof") =>
          /\ decoded.fast = StatusOnly(-1)
          /\ decoded.structured.outcome = "raised"

\* C14 witness: servo_j has scanned a whole JSON object without errorCode
\* and returned -1 with the raw reply.
C14_Witness ==
  /\ decoded.op = "servo_j"
  /\ LacksStatus(reply) /\ reply.cut = "whole"
  /\ decoded.result = WithRaw(-1, Text(reply))

\* What the reply holds for an array query, read off the reply as it was
\* sent: the status the scan finds (-1 without the status marker), whether
\* the marker of the queried field is in it, and whether a ] follows.
Scannable(r) ==
  r.cut # "eof" /\ ~(r.status.form = "word" /\ r.sep = CanonSep)
ScannedStatus(r) ==
  IF r.status.form = "str" /\ r.sep = CanonSep THEN r.status.n ELSE -1
ArrayKey(o) == IF o = "get_joint_position" THEN "joint_pos" ELSE "tcp_pos"
HasFieldMarker(r, o) ==
  r.cut # "nothing" /\ r.extra.key = ArrayKey(o) /\ r.extra.style # "tight"
HasClosingBracket(r) == r.extra.style # "open"
Values(r) == [n \in 1..r.extra.elems |-> NatText(n) \o <<".", "5">>]

C15_EveryCallEnds ==
  \A t \in Threads : (pc[t] # "idle") ~> (pc[t] = "idle")

\* C15 -- On a connected session whose timeout is a positive number, every
\* transaction eventually ends, with a reply or with the timeout failure of
\* the read, and every caller waiting for the lock eventually gets it and
\* ends its own transaction (the lock being fair).
C15_EveryCallEndsWithTimeout ==
  \A t \in Threads :
    (_timeout = "positive" /\ pc[t] # "idle") ~> (pc[t] = "idle")

\* C15 witness: with a positive timeout, one thread waits in recv for a
\* reply that has not come while the other waits for the lock.
C15_Witness ==
  /\ _timeout = "positive"
  /\ \E t \in Threads, u \in Threads :
       /\ pc[t] = "recv_wait" /\ globalLock = t
       /\ streams[call[t].sock].inbox = <<>>
       /\ pc[u] = "acquire"

\* ---------------------------------------------------------------- reconnect
\* C16 -- After login, transactions and logout, a further login on the same
\* object succeeds with a fresh handle: a login that returns leaves the
\* handle on a connected stream which that login created and which no
\* earlier login used; the typed operations issued afterwards write to and
\* read from the stream of the handle only, and a closed stream is never
\* written, read or reopened.
C16_ReconnectFresh ==
  /\ [](/\ (last.op = "login" /\ last.outcome = "returned") =>
             /\ last.ec = 0
             /\ _socket # None /\ streams[_socket].state = "connected"
        /\ \A t \in Threads :
             pc[t] = "recv_wait" => call[t].sock = _socket)
  /\ [][/\ (_socket' # _socket /\ _socket' # None) =>
             /\ streams[_socket'].state = "unborn"
             /\ streams'[_socket'].state = "new"
        /\ \A s \in StreamIds :
             /\ Len(streams'[s].pending) > Len(streams[s].pending) =>
                  s = _socket /\ streams[s].state = "connected"
             /\ Len(streams'[s].inbox) < Len(streams[s].inbox) =>
                  s = _socket
             /\ streams[s].state = "closed" => streams'[s] = streams[s]]_vars

\* C16 witness: a typed operation has returned after one write and one
\* read on the second stream, the first having been closed by logout.
C16_Witness ==
  /\ last.op = "typed" /\ last.outcome = "returned"
  /\ last.writes = 1 /\ last.reads = 1
  /\ _socket = 2 /\ streams[2].state = "connected"
  /\ streams[1].state = "closed" /\ ~streams[1].failed

\* ------------------------------------------------- disconnect during a call
\* C18 (as claimed) -- _close takes no lock; when one thread disconnects
\* while another thread's transaction is between its write and its read,
\* nothing deadlocks and the lock is not left held: the transaction in
\* flight ends with a reply (which the operation then decodes), an I/O error
\* or the not-connected failure, and the lock is free when it has ended.
C18_DisconnectInFlight ==
  /\ \A t \in Threads : globalLock = t => InTransaction(t)
  /\ \A t \in Threads :
       pc[t] \in {"close_shutdown", "close_close", "close_clear"} =>
         \/ ENABLED CloseShutdown(t)
         \/ ENABLED CloseClose(t)
         \/ ENABLED CloseClear(t)
  /\ (last.op = "typed" /\ last.writes = 1 /\ last.at # "send") =>
       /\ globalLock = Unlocked
       /\ last.outcome \in {"returned", "JSONDecodeError", "KeyError",
                            "TypeError", "OSError", "TimeoutError",
                            "NotConnected"}

\* -------------------------------------------------------------------- frame
\* A step of a typed operation: the call itself, or a step of its
\* transaction.
TypedStep ==
  \/ nCalls' # nCalls
  \/ \E t \in Threads : InTransaction(t) /\ pc'[t] # pc[t]
  \/ \E t \in Threads : pc[t] = "acquire" /\ pc'[t] # pc[t]

\* C19 -- No typed operation changes the connection state of the session.
\* The handle is assigned only by login and cleared only by _close; a step
\* of a typed operation leaves the handle as it is and neither closes nor
\* reopens a stream (at most it finds the connection dead); so a call that
\* ends with a timeout, an I/O error, a decode failure or a nonzero status
\* leaves the handle on the same stream, still open on the client's side.
C19_TypedOpsFrame ==
  [][/\ _socket' # _socket =>
          \/ /\ _socket' # None
             /\ pc["owner"] = "idle"
             /\ pc'["owner"] \in {"login_connect", "login_except"}
          \/ /\ _socket' = None
             /\ \E t \in Threads : pc[t] = "close_clear" /\ pc'[t] = "idle"
     /\ TypedStep =>
          /\ _socket' = _socket
          /\ \A s \in StreamIds :
               streams'[s].state # streams[s].state =>
                 streams[s].state = "connected" /\ streams'[s].state = "broken"
     /\ (last'.op = "typed" /\ _socket # None) =>
          /\ _socket' = _socket
          /\ streams'[_socket].state \in {streams[_socket].state, "broken"}
    ]_vars

\* C19 witness: a typed operation has ended with a read timeout and the
\* handle is on the connected stream it wrote to.
C19_Witness ==
  /\ last.op = "typed" /\ last.outcome = "TimeoutError"
  /\ last.writes = 1 /\ last.reads = 1
  /\ _socket # None /\ streams[_socket].state = "connected"

\* ---------------------------------------------------------- one open stream
\* A stream the session opened and has not closed.
Open(s) == streams[s].state \in {"new", "connected", "broken", "shutdown"}

\* C20 (as claimed) -- After any sequence of login and logout calls,
\* including a login while the session is connected, every stream the
\* session has opened other than the one the handle refers to has been
\* closed; after logout no stream the session opened remains open.
C20_AtMostOneOpen ==
  /\ pc["owner"] = "idle" => \A s \in StreamIds : Open(s) => s = _socket
  /\ last.op = "logout" => \A s \in StreamIds : ~Open(s)

====
